---------------------------- MODULE Spec2Model ----------------------------
(***************************************************************************)
(* TensorFlowTTS: the file-backed dataset adapters                         *)
(* (tensorflow_tts/datasets/audio_mel_dataset.py) and the GAN training     *)
(* loop (tensorflow_tts/trainers/base_trainer.py).                         *)
(*                                                                         *)
(* Strings are sequences of character codes, so that sorted() orders paths *)
(* as Python does (code point by code point, a proper prefix first).       *)
(***************************************************************************)
EXTENDS Integers, Sequences, FiniteSets, TLC

(***************************************************************************)
(* Bounds of the model.                                                    *)
(***************************************************************************)
\* longest utterance stem, in characters
MaxStemLen == 3
\* most utterances of a matched directory
MaxFiles == 2
\* longest leading dimension of a stored array; thresholds range over 0..MaxLen
MaxLen == 2
\* the step count past which no further batch is fetched
MaxSteps == 4
\* most batches of one pass over the train data loader
MaxBatches == 2
\* largest save_interval_steps / eval_interval_steps
MaxInterval == 2
\* largest initial value of steps
MaxStart == 1

(***************************************************************************)
(* Strings.                                                                *)
(***************************************************************************)
\* "-wave.npy"
WaveSuffix == <<45, 119, 97, 118, 101, 46, 110, 112, 121>>
\* "-feats.npy"
FeatsSuffix == <<45, 102, 101, 97, 116, 115, 46, 110, 112, 121>>
\* ".npy"
NpyExt == <<46, 110, 112, 121>>
\* ".h5"
H5Ext == <<46, 104, 53>>
\* "d/": the root directory every discovered path starts with
RootDir == <<100, 47>>
\* the characters "-" and "g" utterance stems are written with
StemChars == {45, 103}
\* the stems "a", "b", "c" of the directories with unmatched files
PlainStems == {<<97>>, <<98>>, <<99>>}

Min(a, b) == IF a < b THEN a ELSE b

Range(s) == {s[i] : i \in DOMAIN s}

\* Python's str < str
RECURSIVE LexLess(_, _)
LexLess(a, b) ==
    IF b = <<>> THEN FALSE
    ELSE IF a = <<>> THEN TRUE
    ELSE IF a[1] # b[1] THEN a[1] < b[1]
    ELSE LexLess(Tail(a), Tail(b))

\* sorted(files): ascending by LexLess
RECURSIVE Sorted(_)
Sorted(S) ==
    IF S = {} THEN <<>>
    ELSE LET m == CHOOSE x \in S : \A y \in S \ {x} : LexLess(x, y)
         IN  <<m>> \o Sorted(S \ {m})

EndsWith(s, suf) ==
    /\ Len(s) >= Len(suf)
    /\ SubSeq(s, Len(s) - Len(suf) + 1, Len(s)) = suf

StartsWith(s, pre) ==
    /\ Len(s) >= Len(pre)
    /\ SubSeq(s, 1, Len(pre)) = pre

\* Python's `sub in s`
Contains(s, sub) ==
    \E i \in 0..(Len(s) - Len(sub)) : SubSeq(s, i + 1, i + Len(sub)) = sub

\* os.path.basename: what follows the last "/"
Basename(p) ==
    LET slashes == {i \in DOMAIN p : p[i] = 47}
    IN  IF slashes = {} THEN p
        ELSE LET k == CHOOSE i \in slashes : \A j \in slashes : j <= i
             IN  SubSeq(p, k + 1, Len(p))

\* str.replace(old, ""): every occurrence of old removed, left to right
RECURSIVE Remove(_, _)
Remove(s, old) ==
    IF s = <<>> THEN <<>>
    ELSE IF StartsWith(s, old) THEN Remove(SubSeq(s, Len(old) + 1, Len(s)), old)
    ELSE <<s[1]>> \o Remove(Tail(s), old)

\* os.path.splitext(name)[0]: cut at the last ".", unless only "." precede it
SplitextRoot(name) ==
    LET dots == {i \in DOMAIN name : name[i] = 46}
    IN  IF dots = {} THEN name
        ELSE LET k == CHOOSE i \in dots : \A j \in dots : j <= i
             IN  IF \E j \in 1..(k - 1) : name[j] # 46
                 THEN SubSeq(name, 1, k - 1)
                 ELSE name

(***************************************************************************)
(* Files on disk.                                                          *)
(***************************************************************************)
\* every sequence over chars of length 1..n
RECURSIVE Words(_, _)
Words(chars, n) ==
    IF n = 0 THEN {}
    ELSE LET shorter == Words(chars, n - 1)
         IN  {<<c>> : c \in chars} \cup shorter
             \cup {Append(w, c) : w \in shorter, c \in chars}

Stems == Words(StemChars, MaxStemLen)

AudioPath(u) == RootDir \o u \o WaveSuffix
MelPath(u) == RootDir \o u \o FeatsSuffix
H5Path(u) == RootDir \o u \o H5Ext

\* audio_query / mel_query without their leading "*"
AudioQuery(mode) == IF mode = "npy" THEN WaveSuffix ELSE H5Ext
MelQuery(mode) == IF mode = "npy" THEN FeatsSuffix ELSE H5Ext

VARIABLES
    disk,       \* path -> [utt, wave, feats]: the utterance a file was dumped
                \* from and the leading dimensions of the arrays it holds
    mode,       \* "npy": <stem>-wave.npy and <stem>-feats.npy; "h5": <stem>.h5
    call,       \* the arguments of the constructor call made, if any
    ds,         \* the constructed adapter, or the exception raised
    gen         \* the running generator: its argument, position and output

dataVars == <<disk, mode, call, ds, gen>>

VARIABLES
    config,        \* rank, eval_interval_steps, save_interval_steps,
                   \* train_max_steps; with them the number of batches of the
                   \* train data loader, the kind of _check_train_finish hook
                   \* the subclass supplies, and max_to_keep
    steps,         \* self.steps
    epochs,        \* self.epochs
    finish_train,  \* self.finish_train
    ckpt,          \* self.ckpt: its steps and epochs variables
    ckp_manager,   \* self.ckp_manager: the checkpoints kept, oldest first
    pc,            \* the statement about to execute
    batch_i,       \* batches the current enumerate() has handed out
    trace,         \* history: the calls of the current loop iteration, each
                   \* with the step count it observed
    hist           \* history: steps and epochs when run() was called, the
                   \* _train_step calls and full passes since, the step at
                   \* which finish_train was set, the checkpoint last loaded

trainVars == <<config, steps, epochs, finish_train, ckpt, ckp_manager, pc,
               batch_i, trace, hist>>

vars == <<dataVars, trainVars>>

\* the arrays of one stored file
FileRec(u, a, m) == [utt |-> u, wave |-> a, feats |-> m]

\* .npy dumps: audio for the stems A, features for the stems M
NpyDisk(A, M, alen, mlen) ==
    LET ap == {AudioPath(u) : u \in A}
        mp == {MelPath(u) : u \in M}
    IN  [p \in ap \cup mp |->
            IF p \in ap
            THEN LET u == CHOOSE v \in A : AudioPath(v) = p
                 IN  FileRec(u, alen[u], 0)
            ELSE LET u == CHOOSE v \in M : MelPath(v) = p
                 IN  FileRec(u, 0, mlen[u])]

\* .h5 dumps: one file per stem holding both arrays
H5Disk(U, alen, mlen) ==
    [p \in {H5Path(u) : u \in U} |->
        LET u == CHOOSE v \in U : H5Path(v) = p
        IN  FileRec(u, alen[u], mlen[u])]

\* find_files(root_dir, query): the paths under the root matching "*<query>"
find_files(query) == {p \in DOMAIN disk : EndsWith(Basename(p), query)}

\* audio_load_fn / mel_load_fn: the array read from a file
load_fn(p, key) ==
    [src |-> p, key |-> key,
     n |-> IF key = "wave" THEN disk[p].wave ELSE disk[p].feats]

\* audio_load_fn(f).shape[0]
shape0(arr) == arr.n

(***************************************************************************)
(* The constructors.  A length threshold is {} (None) or {t}.  List        *)
(* positions are 1-based here: position i is Python's index i - 1.         *)
(***************************************************************************)
NoDataset ==
    [status |-> "none", cls |-> "", utt_ids |-> <<>>, audio_files |-> <<>>,
     mel_files |-> <<>>, return_utt_id |-> FALSE]

\* an exception leaves __init__ before any attribute is set
Raised(e) == [NoDataset EXCEPT !.status = e]

Thr(T) == CHOOSE t \in T : TRUE

\* [load_fn(f).shape[0] for f in files]
Lengths(files, key) == [i \in 1..Len(files) |-> shape0(load_fn(files[i], key))]

\* mutant: an entry as long as the threshold is kept
Idxs_keeps_equal(lengths, threshold) ==
    LET F[k \in 0..Len(lengths)] ==
            IF k = 0 THEN <<>>
            ELSE IF lengths[k] >= threshold THEN Append(F[k - 1], k)
            ELSE F[k - 1]
    IN  F[Len(lengths)]

\* [idx for idx in range(len(files)) if lengths[idx] > threshold]
Idxs(lengths, threshold) ==
    LET F[k \in 0..Len(lengths)] ==
            IF k = 0 THEN <<>>
            ELSE IF lengths[k] > threshold THEN Append(F[k - 1], k)
            ELSE F[k - 1]
    IN  F[Len(lengths)]

\* [files[idx] for idx in idxs] raises IndexError past the end of files
CanSelect(files, idxs) == \A k \in DOMAIN idxs : idxs[k] <= Len(files)

Select(files, idxs) == [k \in 1..Len(idxs) |-> files[idxs[k]]]

\* one "filter by threshold" block of AudioMelDataset.__init__: the lengths
\* are those of `measured`, and the indices are applied to both lists
FilterPair(af, mf, measured, key, T) ==
    IF T = {} THEN [err |-> "", a |-> af, m |-> mf]
    ELSE LET idxs == Idxs(Lengths(measured, key), Thr(T))
         IN  IF CanSelect(af, idxs) /\ CanSelect(mf, idxs)
             THEN [err |-> "", a |-> Select(af, idxs), m |-> Select(mf, idxs)]
             ELSE [err |-> "IndexError", a |-> <<>>, m |-> <<>>]

\* the "filter by threshold" block of AudioDataset / MelDataset
FilterOne(files, key, T) ==
    IF T = {} THEN files
    ELSE Select(files, Idxs(Lengths(files, key), Thr(T)))

\* the utterance ids of the retained files
UttIds(files, query, suffix) ==
    IF Contains(<<42>> \o query, NpyExt)
    THEN [i \in 1..Len(files) |-> Remove(Basename(files[i]), suffix)]
    ELSE [i \in 1..Len(files) |-> SplitextRoot(Basename(files[i]))]

\* the two assertions on the number of files
FilesAsserted(audio_files, mel_files) ==
    /\ Len(audio_files) # 0
    /\ Len(audio_files) = Len(mel_files)

AudioMelDataset(Ta, Tm, ret) ==
    LET audio_files == Sorted(find_files(AudioQuery(mode)))
        mel_files == Sorted(find_files(MelQuery(mode)))
        f1 == FilterPair(audio_files, mel_files, audio_files, "wave", Ta)
        f2 == FilterPair(f1.a, f1.m, f1.m, "feats", Tm)
    IN  IF f1.err # "" THEN Raised(f1.err)
        ELSE IF f2.err # "" THEN Raised(f2.err)
        ELSE IF ~FilesAsserted(f2.a, f2.m) THEN Raised("AssertionError")
        ELSE [status |-> "ok", cls |-> "AudioMelDataset",
              utt_ids |-> UttIds(f2.a, AudioQuery(mode), WaveSuffix),
              audio_files |-> f2.a, mel_files |-> f2.m,
              return_utt_id |-> ret]

\* the assertion of AudioDataset / MelDataset on the number of files
OneAsserted(files) == Len(files) # 0

AudioDataset(Ta, ret) ==
    LET audio_files == FilterOne(Sorted(find_files(AudioQuery(mode))), "wave", Ta)
    IN  IF ~OneAsserted(audio_files) THEN Raised("AssertionError")
        ELSE [status |-> "ok", cls |-> "AudioDataset",
              utt_ids |-> UttIds(audio_files, AudioQuery(mode), WaveSuffix),
              audio_files |-> audio_files, mel_files |-> <<>>,
              return_utt_id |-> ret]

MelDataset(Tm, ret) ==
    LET mel_files == FilterOne(Sorted(find_files(MelQuery(mode))), "feats", Tm)
    IN  IF ~OneAsserted(mel_files) THEN Raised("AssertionError")
        ELSE [status |-> "ok", cls |-> "MelDataset",
              utt_ids |-> UttIds(mel_files, MelQuery(mode), FeatsSuffix),
              audio_files |-> <<>>, mel_files |-> mel_files,
              return_utt_id |-> ret]

NoCall == [cls |-> "", Ta |-> {}, Tm |-> {}, ret |-> FALSE]

\* one constructor call, its thresholds drawn from TS
Construct(TS) ==
    /\ ds.status = "none"
    /\ \E Ta \in TS, Tm \in TS, ret \in BOOLEAN :
        \/ /\ call' = [cls |-> "AudioMelDataset", Ta |-> Ta, Tm |-> Tm, ret |-> ret]
           /\ ds' = AudioMelDataset(Ta, Tm, ret)
        \/ /\ Tm = {}
           /\ call' = [cls |-> "AudioDataset", Ta |-> Ta, Tm |-> {}, ret |-> ret]
           /\ ds' = AudioDataset(Ta, ret)
        \/ /\ Ta = {}
           /\ call' = [cls |-> "MelDataset", Ta |-> {}, Tm |-> Tm, ret |-> ret]
           /\ ds' = MelDataset(Tm, ret)
    /\ UNCHANGED <<disk, mode, gen>>
    /\ UNCHANGED trainVars

(***************************************************************************)
(* generator(utt_ids), one record per step.                                *)
(***************************************************************************)
NoGen == [state |-> "idle", ids |-> <<>>, i |-> 0, out |-> <<>>]

\* every arrangement of every subset of the ids: the sub-lists and reorderings
RECURSIVE Arrangements(_)
Arrangements(S) ==
    {<<>>} \cup UNION {{<<x>> \o t : t \in Arrangements(S \ {x})} : x \in S}

\* the items yielded at position i (1-based) for utt_id
Items(i, utt_id) ==
    [utt_id |-> IF ds.return_utt_id THEN <<utt_id>> ELSE <<>>,
     audio |-> IF ds.cls = "MelDataset" THEN <<>>
               ELSE <<load_fn(ds.audio_files[i], "wave")>>,
     mel |-> IF ds.cls = "AudioDataset" THEN <<>>
             ELSE <<load_fn(ds.mel_files[i], "feats")>>]

\* generator(utt_ids) is called: nothing runs before the first next()
GeneratorCall ==
    /\ ds.status = "ok"
    /\ gen.state = "idle"
    /\ \E ids \in Arrangements(Range(ds.utt_ids)) :
        gen' = [state |-> "running", ids |-> ids, i |-> 0, out |-> <<>>]
    /\ UNCHANGED <<disk, mode, call, ds>>
    /\ UNCHANGED trainVars

\* next(): the loop body runs to its yield, or the loop ends
GeneratorNext ==
    /\ gen.state = "running"
    /\ IF gen.i < Len(gen.ids)
       THEN LET i == gen.i + 1
                files == IF ds.cls = "MelDataset" THEN ds.mel_files
                         ELSE ds.audio_files
            IN  IF i > Len(files)
                THEN gen' = [gen EXCEPT !.state = "IndexError"]
                ELSE gen' = [gen EXCEPT !.i = i,
                                !.out = Append(@, Items(i, gen.ids[i]))]
       ELSE gen' = [gen EXCEPT !.state = "exhausted"]
    /\ UNCHANGED <<disk, mode, call, ds>>
    /\ UNCHANGED trainVars

(***************************************************************************)
(* GanBasedTrainer.  pc is the statement of run / _train_epoch about to    *)
(* execute; "idle" is before run() is called and "done" after it returned. *)
(***************************************************************************)
\* create_checkpoint_manager's default max_to_keep
MaxToKeepDefault == 10


NoHist == [steps0 |-> 0, epochs0 |-> 0, nTrain |-> 0, nFull |-> 0,
           finishAt |-> {}, loaded |-> {}]

Event(name) == [ev |-> name, s |-> steps]

\* tf.train.CheckpointManager.save(checkpoint_number): the record is written
\* under its number (replacing one of the same number) and the oldest records
\* beyond max_to_keep are deleted
ManagerSave(kept, rec, max_to_keep) ==
    LET others == SelectSeq(kept, LAMBDA r : r.number # rec.number)
        all == Append(others, rec)
    IN  IF Len(all) > max_to_keep
        THEN SubSeq(all, Len(all) - max_to_keep + 1, Len(all))
        ELSE all

\* mutant: the epochs variable of the checkpoint is never assigned
CkptAssign_stale_epochs == [steps |-> steps, epochs |-> ckpt.epochs]

\* self.ckpt.steps.assign(self.steps); self.ckpt.epochs.assign(self.epochs)
CkptAssign == [steps |-> steps, epochs |-> epochs]

\* the checkpoint_number passed to ckp_manager.save
CheckpointNumber == steps

\* save_checkpoint(): S and E are history, the trainer's counters at the call
save_checkpoint ==
    /\ ckpt' = CkptAssign
    /\ ckp_manager' = ManagerSave(ckp_manager,
                                  [number |-> CheckpointNumber,
                                   steps |-> ckpt'.steps, epochs |-> ckpt'.epochs,
                                   S |-> steps, E |-> epochs],
                                  config.max_to_keep)

\* the values load_checkpoint reads back from the restored variables
Restored(rec) == [steps |-> rec.steps, epochs |-> rec.epochs]

\* run() is called
Run ==
    /\ pc = "idle"
    /\ pc' = "for"
    /\ batch_i' = 0
    /\ trace' = <<>>
    /\ hist' = [NoHist EXCEPT !.steps0 = steps, !.epochs0 = epochs]
    /\ UNCHANGED <<config, steps, epochs, finish_train, ckpt, ckp_manager>>
    /\ UNCHANGED dataVars

\* for train_steps_per_epoch, batch in enumerate(self.train_data_loader, 1)
NextBatch ==
    /\ pc = "for"
    /\ IF batch_i < config.nbatches
       THEN /\ steps < MaxSteps
            /\ batch_i' = batch_i + 1
            /\ pc' = "train_step"
       ELSE /\ pc' = "epoch_end"
            /\ UNCHANGED batch_i
    /\ UNCHANGED <<config, steps, epochs, finish_train, ckpt, ckp_manager,
                   trace, hist>>
    /\ UNCHANGED dataVars

\* self._train_step(batch)
TrainStep ==
    /\ pc = "train_step"
    /\ pc' = "inc"
    /\ trace' = <<Event("_train_step")>>
    /\ hist' = [hist EXCEPT !.nTrain = @ + 1,
                            !.nFull = IF batch_i = config.nbatches
                                      THEN @ + 1 ELSE @]
    /\ UNCHANGED <<config, steps, epochs, finish_train, ckpt, ckp_manager,
                   batch_i>>
    /\ UNCHANGED dataVars

\* self.steps += 1
IncSteps ==
    /\ pc = "inc"
    /\ steps' = steps + 1
    /\ pc' = "check_finish"
    /\ trace' = Append(trace, [ev |-> "steps += 1", s |-> steps'])
    /\ UNCHANGED <<config, epochs, finish_train, ckpt, ckp_manager, batch_i,
                   hist>>
    /\ UNCHANGED dataVars

\* whether the subclass's _check_train_finish may set finish_train now
HookFinishes(b) ==
    IF config.hook = "max_steps" THEN b = (steps >= config.train_max_steps)
    ELSE TRUE

\* mutant: the interval checks run on every rank
AfterCheckFinish_any_rank == "log"

\* the branch taken at `if self.config["rank"] == 0`
AfterCheckFinish == IF config.rank = 0 THEN "log" ELSE "finish_test"

\* self._check_train_finish()
CheckTrainFinish ==
    /\ pc = "check_finish"
    /\ \E b \in BOOLEAN :
        /\ HookFinishes(b)
        /\ finish_train' = (finish_train \/ b)
    /\ pc' = AfterCheckFinish
    /\ trace' = Append(trace, Event("_check_train_finish"))
    /\ hist' = [hist EXCEPT !.finishAt = IF finish_train' /\ ~finish_train
                                         THEN {steps} ELSE @]
    /\ UNCHANGED <<config, steps, epochs, ckpt, ckp_manager, batch_i>>
    /\ UNCHANGED dataVars

\* mutant: the loop goes from the log check straight to the save check
CheckLogInterval_skips_eval ==
    /\ pc = "log"
    /\ pc' = "save"
    /\ trace' = Append(trace, Event("_check_log_interval"))
    /\ UNCHANGED <<config, steps, epochs, finish_train, ckpt, ckp_manager,
                   batch_i, hist>>
    /\ UNCHANGED dataVars

\* self._check_log_interval()
CheckLogInterval ==
    /\ pc = "log"
    /\ pc' = "eval"
    /\ trace' = Append(trace, Event("_check_log_interval"))
    /\ UNCHANGED <<config, steps, epochs, finish_train, ckpt, ckp_manager,
                   batch_i, hist>>
    /\ UNCHANGED dataVars

\* self.steps % self.config["eval_interval_steps"] == 0
EvalDue == steps % config.eval_interval_steps = 0

\* self._check_eval_interval(), _eval_epoch() included
CheckEvalInterval ==
    /\ pc = "eval"
    /\ pc' = "save"
    /\ trace' = trace \o <<Event("_check_eval_interval")>>
                      \o (IF EvalDue THEN <<Event("_eval_epoch")>> ELSE <<>>)
    /\ UNCHANGED <<config, steps, epochs, finish_train, ckpt, ckp_manager,
                   batch_i, hist>>
    /\ UNCHANGED dataVars

\* self.steps % self.config["save_interval_steps"] == 0
SaveDue == steps % config.save_interval_steps = 0

\* self._check_save_interval(), save_checkpoint() included
CheckSaveInterval ==
    /\ pc = "save"
    /\ pc' = "finish_test"
    /\ trace' = trace \o <<Event("_check_save_interval")>>
                      \o (IF SaveDue THEN <<Event("save_checkpoint")>> ELSE <<>>)
    /\ IF SaveDue THEN save_checkpoint ELSE UNCHANGED <<ckpt, ckp_manager>>
    /\ UNCHANGED <<config, steps, epochs, finish_train, batch_i, hist>>
    /\ UNCHANGED dataVars

\* mutant: _train_epoch does not return when finish_train is set
AfterFinishTest_no_return == "for"

\* where `if self.finish_train: return` of _train_epoch leads
AfterFinishTest == IF finish_train THEN "run_test" ELSE "for"

\* if self.finish_train: return
FinishTest ==
    /\ pc = "finish_test"
    /\ pc' = AfterFinishTest
    /\ UNCHANGED <<config, steps, epochs, finish_train, ckpt, ckp_manager,
                   batch_i, trace, hist>>
    /\ UNCHANGED dataVars

\* after the loop: self.epochs += 1, then train_steps_per_epoch is read,
\* which no iteration has bound when the loader was empty
EpochEnd ==
    /\ pc = "epoch_end"
    /\ epochs' = epochs + 1
    /\ pc' = IF config.nbatches = 0 THEN "UnboundLocalError" ELSE "run_test"
    /\ UNCHANGED <<config, steps, finish_train, ckpt, ckp_manager, batch_i,
                   trace, hist>>
    /\ UNCHANGED dataVars

\* where `if self.finish_train: break` of run leads
AfterRunTest == IF finish_train THEN "done" ELSE "for"

\* back in run(): if self.finish_train: break; else _train_epoch() again
RunTest ==
    /\ pc = "run_test"
    /\ pc' = AfterRunTest
    /\ batch_i' = IF finish_train THEN batch_i ELSE 0
    /\ UNCHANGED <<config, steps, epochs, finish_train, ckpt, ckp_manager,
                   trace, hist>>
    /\ UNCHANGED dataVars

\* save_checkpoint() called by the user, outside run()
SaveCheckpoint ==
    /\ pc \in {"idle", "done"}
    /\ save_checkpoint
    /\ UNCHANGED <<config, steps, epochs, finish_train, pc, batch_i, trace,
                   hist>>
    /\ UNCHANGED dataVars

\* load_checkpoint(pretrained_path), outside run(), of a checkpoint kept
LoadCheckpoint ==
    /\ pc \in {"idle", "done"}
    /\ \E k \in DOMAIN ckp_manager :
        /\ ckpt' = Restored(ckp_manager[k])
        /\ steps' = ckpt'.steps
        /\ epochs' = ckpt'.epochs
        /\ hist' = [hist EXCEPT !.loaded = {ckp_manager[k].number}]
    /\ UNCHANGED <<config, finish_train, ckp_manager, pc, batch_i, trace>>
    /\ UNCHANGED dataVars

\* the statements of run() and _train_epoch()
RunStep ==
    \/ NextBatch
    \/ TrainStep
    \/ IncSteps
    \/ CheckTrainFinish
    \/ CheckLogInterval
    \/ CheckEvalInterval
    \/ CheckSaveInterval
    \/ FinishTest
    \/ EpochEnd
    \/ RunTest

(***************************************************************************)
(* The specifications.                                                     *)
(***************************************************************************)
\* the thresholds tried on the matched directories
PairThresholds == {{}, {1}}
\* the thresholds tried on the directories with unmatched files
Thresholds == {{}} \cup {{t} : t \in 0..MaxLen}

NoTrainer ==
    /\ config = [rank |-> 0, eval_interval_steps |-> 1, save_interval_steps |-> 1,
                 train_max_steps |-> 1, nbatches |-> 0, hook |-> "any",
                 max_to_keep |-> 1]
    /\ steps = 0
    /\ epochs = 0
    /\ finish_train = FALSE
    /\ ckpt = [steps |-> 1, epochs |-> 1]
    /\ ckp_manager = <<>>
    /\ pc = "idle"
    /\ batch_i = 0
    /\ trace = <<>>
    /\ hist = NoHist

NoData ==
    /\ disk = <<>>
    /\ mode = "npy"
    /\ call = NoCall
    /\ ds = NoDataset
    /\ gen = NoGen

\* a directory of 1..MaxFiles utterances, each dumped with both its arrays
InitData ==
    /\ \E U \in SUBSET Stems :
        /\ Cardinality(U) \in 1..MaxFiles
        /\ \E alen \in [U -> 1..MaxLen], mlen \in [U -> 1..MaxLen] :
            \/ mode = "npy" /\ disk = NpyDisk(U, U, alen, mlen)
            \/ mode = "h5" /\ disk = H5Disk(U, alen, mlen)
    /\ call = NoCall
    /\ ds = NoDataset
    /\ gen = NoGen
    /\ NoTrainer

\* a directory of .npy dumps in which any audio or feature file may be missing
InitFilter ==
    /\ \E A \in SUBSET PlainStems, M \in SUBSET PlainStems :
        \E alen \in [A -> 1..MaxLen], mlen \in [M -> 1..MaxLen] :
            mode = "npy" /\ disk = NpyDisk(A, M, alen, mlen)
    /\ call = NoCall
    /\ ds = NoDataset
    /\ gen = NoGen
    /\ NoTrainer

\* GanBasedTrainer(steps, epochs, config) with its loader set and
\* create_checkpoint_manager(max_to_keep) called
InitTrain ==
    /\ \E rank \in {0, 1}, ei \in 1..MaxInterval, si \in 1..MaxInterval,
          nb \in 0..MaxBatches, keep \in {1, MaxToKeepDefault},
          tms \in 1..MaxSteps, hook \in {"any", "max_steps"} :
        /\ hook = "any" => tms = MaxSteps
        /\ config = [rank |-> rank, eval_interval_steps |-> ei,
                     save_interval_steps |-> si, train_max_steps |-> tms,
                     nbatches |-> nb, hook |-> hook, max_to_keep |-> keep]
    /\ steps \in 0..MaxStart
    /\ epochs \in {0, 1}
    /\ finish_train = FALSE
    /\ ckpt = [steps |-> 1, epochs |-> 1]
    /\ ckp_manager = <<>>
    /\ pc = "idle"
    /\ batch_i = 0
    /\ trace = <<>>
    /\ hist = NoHist
    /\ NoData

NextData ==
    \/ Construct(PairThresholds)
    \/ GeneratorCall
    \/ GeneratorNext

NextFilter == Construct(Thresholds)

NextTrain ==
    \/ Run
    \/ RunStep
    \/ SaveCheckpoint
    \/ LoadCheckpoint

SpecData == InitData /\ [][NextData]_vars

SpecFilter == InitFilter /\ [][NextFilter]_vars

SpecTrain == InitTrain /\ [][NextTrain]_vars

\* run() keeps executing: a single thread, and hooks that return
SpecTrainFair == SpecTrain /\ WF_vars(RunStep)

(***************************************************************************)
(* Properties of the training loop.                                        *)
(***************************************************************************)
IsPrefix(a, b) == Len(a) <= Len(b) /\ SubSeq(b, 1, Len(a)) = a

Ev(name, s) == [ev |-> name, s |-> s]

\* the calls of the loop iteration whose _train_step saw the step count s0,
\* in the order and with the step counts the iteration is to show
ExpectedTrace(s0) ==
    LET s == s0 + 1
    IN  <<Ev("_train_step", s0), Ev("steps += 1", s), Ev("_check_train_finish", s)>>
        \o (IF config.rank = 0
            THEN <<Ev("_check_log_interval", s), Ev("_check_eval_interval", s)>>
                 \o (IF s % config.eval_interval_steps = 0
                     THEN <<Ev("_eval_epoch", s)>> ELSE <<>>)
                 \o <<Ev("_check_save_interval", s)>>
                 \o (IF s % config.save_interval_steps = 0
                     THEN <<Ev("save_checkpoint", s)>> ELSE <<>>)
            ELSE <<>>)

\* the call `name` was made in the current iteration, at the current step count
Invoked(name) == \E k \in DOMAIN trace : trace[k] = Ev(name, steps)

Called(name) == \E k \in DOMAIN trace : trace[k].ev = name

\* C4: when the interval checks of a step are over, save_checkpoint was
\* invoked at this step count iff rank = 0 and the count is a multiple of
\* save_interval_steps, _eval_epoch iff rank = 0 and the count is a multiple
\* of eval_interval_steps; with rank # 0 no log check, evaluation or save is
\* ever invoked by the loop.
C4_IntervalTriggers ==
    /\ pc = "finish_test" =>
        /\ Invoked("save_checkpoint")
             <=> (config.rank = 0 /\ steps % config.save_interval_steps = 0)
        /\ Invoked("_eval_epoch")
             <=> (config.rank = 0 /\ steps % config.eval_interval_steps = 0)
    /\ config.rank # 0 =>
        /\ ~Called("_check_log_interval")
        /\ ~Called("_eval_epoch")
        /\ ~Called("save_checkpoint")
        /\ pc \notin {"log", "eval", "save"}

\* a step that is a multiple of one interval and not of the other
C4_Witness ==
    /\ pc = "finish_test"
    /\ config.rank = 0
    /\ steps > hist.steps0 + 1
    /\ Invoked("save_checkpoint")
    /\ ~Invoked("_eval_epoch")

\* C5: every checkpoint kept is tagged with the step count of its save and
\* holds the steps and epochs of that moment, and once load_checkpoint has
\* loaded it, steps and epochs are those values again.
C5_CheckpointRoundTrip ==
    \A k \in DOMAIN ckp_manager :
        LET r == ckp_manager[k]
        IN  /\ r.number = r.S
            /\ r.steps = r.S
            /\ r.epochs = r.E
            /\ hist.loaded = {r.number} => (steps = r.S /\ epochs = r.E)

\* a checkpoint loaded after run() trained past it
C5_Witness ==
    /\ pc = "done"
    /\ hist.loaded # {}
    /\ steps < hist.steps0 + hist.nTrain
    /\ epochs < hist.epochs0 + hist.nFull

\* C7: the calls of an iteration are made in the order _train_step, steps += 1,
\* _check_train_finish, then at rank 0 the log, evaluation and save checks,
\* each seeing the incremented step count; and when the next _train_step is
\* about to be invoked, the evaluation and save of this step have returned.
C7_IterationOrder ==
    /\ trace # <<>> => IsPrefix(trace, ExpectedTrace(trace[1].s))
    /\ (pc \in {"for", "train_step", "finish_test"} /\ trace # <<>>)
          => trace = ExpectedTrace(trace[1].s)
    /\ (Len(trace) >= 2 /\ hist.loaded = {}) => steps = trace[1].s + 1

\* the second batch is about to be trained after an evaluation and a save
C7_Witness ==
    /\ pc = "train_step"
    /\ Called("_eval_epoch")
    /\ Called("save_checkpoint")
    /\ Len(trace) = 8

\* C8: whenever _train_epoch has returned, steps is its value at the call of
\* run plus the _train_step invocations since, and epochs its value at the
\* call plus the passes in which every batch was consumed.
C8_Counters ==
    (pc \in {"run_test", "done"} /\ hist.loaded = {}) =>
        /\ steps = hist.steps0 + hist.nTrain
        /\ epochs = hist.epochs0 + hist.nFull

AfterFinishPcs == {"log", "eval", "save", "finish_test", "run_test", "done"}

\* C9 (safety): once finish_train is set at step s no further step is taken,
\* the interval checks of step s have run when _train_epoch returns, and run
\* returns only with finish_train set.
C9_Cancelled ==
    /\ (finish_train /\ hist.loaded = {}) =>
        /\ hist.finishAt = {steps}
        /\ pc \in AfterFinishPcs
    /\ (finish_train /\ pc \in {"run_test", "done"}) =>
        /\ hist.finishAt # {}
        /\ trace = ExpectedTrace(Thr(hist.finishAt) - 1)
    /\ pc = "done" => finish_train

\* C9: cooperative cancellation; and with a hook that sets finish_train as
\* soon as steps >= train_max_steps and a loader of at least one batch, run,
\* once called, returns.
C9_Cancellation ==
    /\ []C9_Cancelled
    /\ (pc # "idle" /\ config.hook = "max_steps" /\ config.nbatches >= 1)
          ~> (pc = "done")

\* run returned at train_max_steps after more than one pass
C9_Witness ==
    /\ pc = "done"
    /\ config.hook = "max_steps"
    /\ steps = config.train_max_steps
    /\ hist.nFull >= 1
    /\ hist.nTrain > config.nbatches

(***************************************************************************)
(* Properties of the dataset adapters.                                     *)
(***************************************************************************)
\* the sorted lists discovery produced, before any filtering
Discovered(query) == Sorted(find_files(query))

Pos(f, list) == CHOOSE i \in DOMAIN list : list[i] = f

Increasing(list) ==
    \A i, j \in DOMAIN list : i < j => LexLess(list[i], list[j])

\* the length n passes the threshold T
Exceeds(T, n) == T = {} \/ n > Thr(T)

\* the positions at which both the audio and the feature entry pass
KeptPositions ==
    LET a0 == Discovered(AudioQuery(mode))
        m0 == Discovered(MelQuery(mode))
    IN  {i \in 1..Min(Len(a0), Len(m0)) :
            /\ Exceeds(call.Ta, disk[a0[i]].wave)
            /\ Exceeds(call.Tm, disk[m0[i]].feats)}

\* C1: a constructed adapter retains exactly the entries longer than the
\* threshold (an entry as long as the threshold is removed), in sorted order;
\* the paired adapter retains the same positions of both lists, those whose
\* audio and features both pass, and the two lists have the same length.
C1_FilterExact ==
    ds.status = "ok" =>
        LET a0 == Discovered(AudioQuery(mode))
            m0 == Discovered(MelQuery(mode))
        IN  CASE ds.cls = "AudioDataset" ->
                   /\ Range(ds.audio_files)
                        = {f \in Range(a0) : Exceeds(call.Ta, disk[f].wave)}
                   /\ Increasing(ds.audio_files)
              [] ds.cls = "MelDataset" ->
                   /\ Range(ds.mel_files)
                        = {f \in Range(m0) : Exceeds(call.Tm, disk[f].feats)}
                   /\ Increasing(ds.mel_files)
              [] OTHER ->
                   /\ Len(ds.audio_files) = Len(ds.mel_files)
                   /\ \A k \in DOMAIN ds.audio_files :
                        Pos(ds.audio_files[k], a0) = Pos(ds.mel_files[k], m0)
                   /\ {Pos(f, a0) : f \in Range(ds.audio_files)} = KeptPositions
                   /\ Increasing(ds.audio_files)
                   /\ Increasing(ds.mel_files)

\* both thresholds set, an entry exactly as long as the audio threshold
\* removed and another entry kept
C1_Witness ==
    /\ ds.status = "ok"
    /\ ds.cls = "AudioMelDataset"
    /\ call.Ta # {}
    /\ call.Tm # {}
    /\ Len(ds.audio_files) < Cardinality(find_files(AudioQuery(mode)))
    /\ \E f \in find_files(AudioQuery(mode)) :
        /\ disk[f].wave = Thr(call.Ta)
        /\ f \notin Range(ds.audio_files)

\* C2: construction fails with the assertion error when no file is left
\* (AudioDataset, MelDataset), when no audio file was discovered or the two
\* unfiltered lists differ in size (AudioMelDataset); a failed construction
\* leaves no adapter.
C2_IntegrityError ==
    ds.status # "none" =>
        LET a == find_files(AudioQuery(mode))
            m == find_files(MelQuery(mode))
        IN  /\ (call.cls = "AudioDataset"
                  /\ {f \in a : Exceeds(call.Ta, disk[f].wave)} = {})
                    => ds.status = "AssertionError"
            /\ (call.cls = "MelDataset"
                  /\ {f \in m : Exceeds(call.Tm, disk[f].feats)} = {})
                    => ds.status = "AssertionError"
            /\ (call.cls = "AudioMelDataset" /\ a = {})
                    => ds.status = "AssertionError"
            /\ (call.cls = "AudioMelDataset" /\ call.Ta = {} /\ call.Tm = {}
                  /\ Cardinality(a) # Cardinality(m))
                    => ds.status = "AssertionError"
            /\ ds.status # "ok" => ds = Raised(ds.status)

\* C10: the paired adapter is constructed only when discovery found as many
\* audio files as feature files.
C10_MismatchDetected ==
    (ds.status = "ok" /\ ds.cls = "AudioMelDataset") =>
        Cardinality(find_files(AudioQuery(mode)))
            = Cardinality(find_files(MelQuery(mode)))

\* the utterance a file was dumped from
UttOf(p) == disk[p].utt

\* C3: in a paired adapter over matched files, position i of audio_files,
\* mel_files and utt_ids is one utterance; without thresholds every utterance
\* is there; the records of generator(self.utt_ids) pair audio and features
\* of one utterance.
C3_PairsAligned ==
    (ds.status = "ok" /\ ds.cls = "AudioMelDataset") =>
        /\ Len(ds.utt_ids) = Len(ds.audio_files)
        /\ Len(ds.utt_ids) = Len(ds.mel_files)
        /\ \A i \in DOMAIN ds.utt_ids :
            /\ UttOf(ds.audio_files[i]) = UttOf(ds.mel_files[i])
            /\ ds.utt_ids[i] = UttOf(ds.audio_files[i])
        /\ (call.Ta = {} /\ call.Tm = {}) =>
            Len(ds.utt_ids) = Cardinality({UttOf(p) : p \in DOMAIN disk})
        /\ gen.ids = ds.utt_ids =>
            /\ \A k \in DOMAIN gen.out :
                UttOf(gen.out[k].audio[1].src) = UttOf(gen.out[k].mel[1].src)
            /\ gen.state = "exhausted" => Len(gen.out) = Len(ds.utt_ids)

\* C6: generator(ids) yields one record per id, in order, and the record
\* yielded for id u holds the data of utterance u (the audio for the adapters
\* with audio, the features for MelDataset) and, when ids are returned, u.
C6_RecordPerId ==
    /\ \A k \in DOMAIN gen.out :
        LET u == gen.ids[k]
            rec == gen.out[k]
        IN  /\ rec.audio # <<>> => UttOf(rec.audio[1].src) = u
            /\ ds.cls = "MelDataset" => UttOf(rec.mel[1].src) = u
            /\ rec.utt_id # <<>> => rec.utt_id = <<u>>
    /\ gen.state = "exhausted" => Len(gen.out) = Len(gen.ids)
    /\ gen.state # "IndexError"

=============================================================================
